---- MODULE Spec2Model ----
(***************************************************************************)
(* Model of charts-clean (src/main.rs): a directory walk that groups files *)
(* by the prefix of their name, keeps the newest-dated file of each group  *)
(* and deletes the rest.                                                   *)
(*                                                                         *)
(* A string is a sequence of one-character strings, so that split('/'),    *)
(* split('_') and join("_") are computed as the code computes them.        *)
(***************************************************************************)
EXTENDS Integers, Sequences, FiniteSets, TLC

\* Largest number of files the directory tree of a run holds.
MaxFiles == 4

----------------------------------------------------------------------------
\* Strings

Last(s) == s[Len(s)]

RECURSIVE SplitAcc(_, _, _, _)
SplitAcc(s, sep, cur, acc) ==
    IF s = <<>> THEN Append(acc, cur)
    ELSE IF Head(s) = sep
         THEN SplitAcc(Tail(s), sep, <<>>, Append(acc, cur))
         ELSE SplitAcc(Tail(s), sep, Append(cur, Head(s)), acc)

\* str::split(sep): the pieces between separators, empty pieces included.
Split(s, sep) == SplitAcc(s, sep, <<>>, <<>>)

RECURSIVE Join(_, _)
\* [&str]::join(sep)
Join(toks, sep) ==
    IF toks = <<>> THEN <<>>
    ELSE IF Len(toks) = 1 THEN toks[1]
    ELSE toks[1] \o <<sep>> \o Join(Tail(toks), sep)

\* Byte value of the characters the model's names are written with.
Byte(c) ==
    CASE c = "/" -> 47
      [] c = "1" -> 49
      [] c = "2" -> 50
      [] c = "3" -> 51
      [] c = "A" -> 65
      [] c = "B" -> 66
      [] c = "_" -> 95
      [] c = "e" -> 101
      [] c = "f" -> 102
      [] c = "r" -> 114
      [] c = "t" -> 116
      [] c = "x" -> 120
      [] c = "z" -> 122

RECURSIVE BytesLess(_, _)
\* Lexicographic order of two byte strings.
BytesLess(a, b) ==
    IF b = <<>> THEN FALSE
    ELSE IF a = <<>> THEN TRUE
    ELSE IF Byte(Head(a)) # Byte(Head(b)) THEN Byte(Head(a)) < Byte(Head(b))
    ELSE BytesLess(Tail(a), Tail(b))

RECURSIVE ComponentsLess(_, _)
ComponentsLess(a, b) ==
    IF b = <<>> THEN FALSE
    ELSE IF a = <<>> THEN TRUE
    ELSE IF Head(a) # Head(b) THEN BytesLess(Head(a), Head(b))
    ELSE ComponentsLess(Tail(a), Tail(b))

\* Ord for PathBuf: paths compare component by component.
PathLess(p, q) == ComponentsLess(Split(p, "/"), Split(q, "/"))

----------------------------------------------------------------------------
\* The directory tree a run walks

\* The root directory of main; its path holds no underscore.
Root == <<"/", "r">>

\* A sub-directory whose own name holds an underscore.
SubDir == Root \o <<"/", "e", "_", "f">>

Dirs == {Root, SubDir}

\* File names: <prefix>_<date>_<time>_<extension>, and names with fewer fields.
FileNames ==
    { <<"A", "_", "1", "_", "t", "_", "x">>,
      <<"A", "_", "2", "_", "t", "_", "x">>,
      <<"A", "_", "3", "_", "t", "_", "x">>,
      <<"B", "_", "1", "_", "t", "_", "x">>,
      <<"A", "_", "z", "_", "t", "_", "x">>,
      <<"2", "_", "t", "_", "x">>,
      <<"A", "_", "x">>,
      <<"x">> }

Candidates == { d \o <<"/">> \o n : d \in Dirs, n \in FileNames }

\* The directory an entry lies in.
ParentOf(p) ==
    LET comps == Split(p, "/")
    IN  Join(SubSeq(comps, 1, Len(comps) - 1), "/")

VARIABLES
    files,      \* the files of the tree when the run starts
    disk,       \* the files now on disk
    stack,      \* one frame per open read_dir iterator: the entries it has yet to yield
    to_keep,    \* BTreeSet<FoundFile>
    to_remove,  \* BTreeSet<PathBuf>
    pc,         \* "start", "walk", "delete", "done"
    err,        \* "none", or how the run died: "io", "format", "panic"
    visited,    \* the non-directory entries handed to the parser, in arrival order
    del_pos,    \* how many elements of to_remove the deletion loop has passed
    last_tried, \* the path the deletion loop handed to remove_file last
    report      \* the two counts logged at the end, or <<>>

vars == <<files, disk, stack, to_keep, to_remove, pc, err, visited, del_pos,
          last_tried, report>>

\* What read_dir(d) yields, in an order the file system chooses.
Entries(d) == {p \in files \cup Dirs : p # Root /\ ParentOf(p) = d}

----------------------------------------------------------------------------
\* The filename parser (scan_dir_and_recurse, lines 92-108)

\* The underscore-delimited fields of the last path segment.
NameFields(path_str) == Split(Last(Split(path_str, "/")), "_")

\* The subtraction saturating at zero: no name makes split_at panic.
SplitAtPanics_Saturating(path_str) == FALSE

\* base_path.len()-3 underflows for fewer than three fields: a debug build
\* panics on the subtraction, a release build wraps it and split_at panics
\* because the index is past the end.
SplitAtPanics(path_str) == Len(NameFields(path_str)) < 3

\* The group key: all fields of the name but the last three, joined again.
BasePath(path_str) ==
    LET f == NameFields(path_str)
    IN  Join(SubSeq(f, 1, Len(f) - 3), "_")

\* Three next_back() calls on the split of the whole path string.
\* <<>> stands for None, <<tok>> for Some(tok).
DateToken(path_str) ==
    LET paths == Split(path_str, "_")
    IN  IF Len(paths) < 3 THEN <<>> ELSE <<paths[Len(paths) - 2]>>

\* BASIC_CALENDAR_DATE.try_from (irox_time): the date's ordinal, or 0 for a
\* FormatError. A date is written with one digit here; a token is a date only
\* when it is that text and nothing else, so a token that carries part of a
\* directory name is a FormatError.
ParseDate(tok) ==
    IF Len(tok) # 1 THEN 0
    ELSE CASE tok[1] = "1" -> 1
           [] tok[1] = "2" -> 2
           [] tok[1] = "3" -> 3
           [] OTHER -> 0

NoFile == [path |-> <<>>, date |-> 0, full_path |-> <<>>]

\* What lines 92-108 make of a non-directory entry.
Classify(p) ==
    IF SplitAtPanics(p) THEN [kind |-> "panic", file |-> NoFile]
    ELSE IF DateToken(p) = <<>> THEN [kind |-> "skip", file |-> NoFile]
    ELSE IF ParseDate(DateToken(p)[1]) = 0 THEN [kind |-> "format", file |-> NoFile]
    ELSE [kind |-> "ok",
          file |-> [path |-> BasePath(p),
                    date |-> ParseDate(DateToken(p)[1]),
                    full_path |-> p]]

\* Classify, tabulated over the files a tree can hold.
Classified == [p \in Candidates |-> Classify(p)]

----------------------------------------------------------------------------
\* The deduplicator (scan_dir_and_recurse, lines 110-124)

\* Equality over all three fields, as a derived PartialEq would give.
SameSlot_Structural(a, b) == a = b

\* impl PartialEq/Ord for FoundFile: by path (the group key) alone.
SameSlot(a, b) == a.path = b.path

\* to_keep.contains(&found_file)
Contains(keep, ff) == \E k \in keep : SameSlot(k, ff)

\* to_keep.take(&found_file).unwrap()
Take(keep, ff) == CHOOSE k \in keep : SameSlot(k, ff)

\* BTreeSet::insert: an element equal to one already present is not inserted.
Insert(keep, ff) == IF Contains(keep, ff) THEN keep ELSE keep \cup {ff}

\* The comparison turned round.
Replaces_Flipped(old, ff) == old.date > ff.date

\* The comparison with equality let through.
Replaces_OrEqual(old, ff) == old.date <= ff.date

\* old.date < found_file.date
Replaces(old, ff) == old.date < ff.date

\* The deduplicator without line 115: a replaced entry is dropped.
Dedupe_ForgetOld(keep, remove, ff) ==
    IF Contains(keep, ff)
    THEN LET old  == Take(keep, ff)
             rest == keep \ {old}
         IN  IF Replaces(old, ff)
             THEN [keep |-> Insert(rest, ff), remove |-> remove]
             ELSE [keep |-> Insert(rest, old), remove |-> remove \cup {ff.full_path}]
    ELSE [keep |-> Insert(keep, ff), remove |-> remove]

\* The deduplicator assigning the loser to to_remove instead of inserting it.
Dedupe_Overwrite(keep, remove, ff) ==
    IF Contains(keep, ff)
    THEN LET old  == Take(keep, ff)
             rest == keep \ {old}
         IN  IF Replaces(old, ff)
             THEN [keep |-> Insert(rest, ff), remove |-> {old.full_path}]
             ELSE [keep |-> Insert(rest, old), remove |-> {ff.full_path}]
    ELSE [keep |-> Insert(keep, ff), remove |-> remove]

\* The two sets after found_file has been handled.
Dedupe(keep, remove, ff) ==
    IF Contains(keep, ff)
    THEN LET old  == Take(keep, ff)
             rest == keep \ {old}
         IN  IF Replaces(old, ff)
             THEN [keep |-> Insert(rest, ff), remove |-> remove \cup {old.full_path}]
             ELSE [keep |-> Insert(rest, old), remove |-> remove \cup {ff.full_path}]
    ELSE [keep |-> Insert(keep, ff), remove |-> remove]

----------------------------------------------------------------------------
\* The run

Init ==
    /\ files \in {S \in SUBSET Candidates : Cardinality(S) <= MaxFiles}
    /\ disk = files
    /\ stack = <<>>
    /\ to_keep = {}
    /\ to_remove = {}
    /\ pc = "start"
    /\ err = "none"
    /\ visited = <<>>
    /\ del_pos = 0
    /\ last_tried = <<>>
    /\ report = <<>>

Running(phase) == pc = phase /\ err = "none"

Top == stack[Len(stack)]

\* An iterator that does not advance past the entry it yields.
Yielded_Stuck(e) == stack

\* The stack with entry e taken from the innermost iterator.
Yielded(e) == [stack EXCEPT ![Len(stack)] = @ \ {e}]

\* A `?` that returns the error out of main.
Abort(kind) ==
    /\ err' = kind
    /\ UNCHANGED <<files, disk, stack, to_keep, to_remove, pc, visited, del_pos,
                   last_tried, report>>

\* main, line 132: read_dir(path)?
ReadRoot ==
    /\ Running("start")
    /\ stack' = <<Entries(Root)>>
    /\ pc' = "walk"
    /\ UNCHANGED <<files, disk, to_keep, to_remove, err, visited, del_pos,
                   last_tried, report>>

ReadRootError ==
    /\ Running("start")
    /\ Abort("io")

\* lines 87 and 138: the iterator yields an Err instead of an entry.
NextEntryError ==
    /\ Running("walk")
    /\ Abort("io")

\* line 82: dir.file_type()?
FileTypeError ==
    /\ Running("walk")
    /\ Top # {}
    /\ Abort("io")

\* lines 84-85: the entry is a directory and read_dir opens it.
EnterDir ==
    /\ Running("walk")
    /\ \E e \in Top :
        /\ e \in Dirs
        /\ stack' = Append(Yielded(e), Entries(e))
    /\ UNCHANGED <<files, disk, to_keep, to_remove, pc, err, visited, del_pos,
                   last_tried, report>>

\* line 85: read_dir(path)? fails.
ReadDirError ==
    /\ Running("walk")
    /\ \E e \in Top : e \in Dirs
    /\ Abort("io")

\* lines 86-90: the inner iterator is exhausted, the call returns Ok(()).
ReturnFromDir ==
    /\ Running("walk")
    /\ Len(stack) > 1
    /\ Top = {}
    /\ stack' = SubSeq(stack, 1, Len(stack) - 1)
    /\ UNCHANGED <<files, disk, to_keep, to_remove, pc, err, visited, del_pos,
                   last_tried, report>>

\* lines 92-126: a non-directory entry is parsed and handed to the deduplicator.
ProcessFile ==
    /\ Running("walk")
    /\ \E e \in Top :
        /\ e \notin Dirs
        /\ stack' = Yielded(e)
        /\ visited' = Append(visited, e)
        /\ LET c == Classified[e]
           IN  CASE c.kind = "ok" ->
                      /\ to_keep' = Dedupe(to_keep, to_remove, c.file).keep
                      /\ to_remove' = Dedupe(to_keep, to_remove, c.file).remove
                      /\ err' = err
                 [] c.kind = "skip" ->
                      UNCHANGED <<to_keep, to_remove, err>>
                 [] OTHER ->
                      /\ err' = c.kind
                      /\ UNCHANGED <<to_keep, to_remove>>
    /\ UNCHANGED <<files, disk, pc, del_pos, last_tried, report>>

\* lines 137-140: the loop over the root's entries ends.
WalkDone ==
    /\ Running("walk")
    /\ stack = <<{}>>
    /\ pc' = "delete"
    /\ stack' = <<>>
    /\ UNCHANGED <<files, disk, to_keep, to_remove, err, visited, del_pos,
                   last_tried, report>>

\* PathLess, tabulated: the paths a tree can hold that sort before p.
Below == [p \in Candidates |-> {q \in Candidates : PathLess(q, p)}]

\* The elements of a BTreeSet<PathBuf> the iterator has yet to reach.
Remaining(remove, pos) ==
    {p \in remove : Cardinality(remove \cap Below[p]) >= pos}

\* The iteration turned round: the greatest path not yet passed.
NextToRemove_Descending(remove, pos) ==
    CHOOSE p \in remove :
        Cardinality({q \in remove : p \in Below[q]}) = pos

\* The deletion loop running over the kept files instead of to_remove.
NextToRemove_WrongSet(remove, pos) ==
    CHOOSE p \in {k.full_path : k \in to_keep} : TRUE

\* BTreeSet iteration is ascending: the least path not yet passed.
NextToRemove(remove, pos) ==
    CHOOSE p \in Remaining(remove, pos) :
        \A q \in Remaining(remove, pos) : q = p \/ p \in Below[q]

\* Deleting while the walk is still under way.
CanDelete_Eager == pc \in {"walk", "delete"} /\ err = "none"

\* The deletion loop is reached only when every `?` of the walk passed.
CanDelete == pc = "delete" /\ err = "none"

\* lines 142-145: remove_file on the next path succeeds.
RemoveFile ==
    /\ CanDelete
    /\ del_pos < Cardinality(to_remove)
    /\ LET file == NextToRemove(to_remove, del_pos)
       IN  /\ disk' = disk \ {file}
           /\ last_tried' = file
    /\ del_pos' = del_pos + 1
    /\ UNCHANGED <<files, stack, to_keep, to_remove, pc, err, visited, report>>

\* line 144: remove_file(&file)? fails; the file stays where it is.
RemoveFileError ==
    /\ CanDelete
    /\ del_pos < Cardinality(to_remove)
    /\ last_tried' = NextToRemove(to_remove, del_pos)
    /\ err' = "io"
    /\ UNCHANGED <<files, disk, stack, to_keep, to_remove, pc, visited, del_pos,
                   report>>

\* lines 146-149: the two counts are logged and main returns Ok(()).
Report ==
    /\ CanDelete
    /\ del_pos = Cardinality(to_remove)
    /\ report' = <<Cardinality(to_keep), Cardinality(to_remove)>>
    /\ pc' = "done"
    /\ UNCHANGED <<files, disk, stack, to_keep, to_remove, err, visited, del_pos,
                   last_tried>>

Next ==
    \/ ReadRoot
    \/ ReadRootError
    \/ NextEntryError
    \/ FileTypeError
    \/ EnterDir
    \/ ReadDirError
    \/ ReturnFromDir
    \/ ProcessFile
    \/ WalkDone
    \/ RemoveFile
    \/ RemoveFileError
    \/ Report

Spec == Init /\ [][Next]_vars

\* The program is one sequential thread: whenever a step is possible, the
\* next step is taken.
FairSpec == Spec /\ WF_vars(Next)

----------------------------------------------------------------------------
\* Definitions the properties are stated with

Range(s) == {s[i] : i \in 1..Len(s)}

\* The visited files the parser accepted.
Parsed == {p \in Range(visited) : Classified[p].kind = "ok"}

KeyOf(p) == Classified[p].file.path
DateOf(p) == Classified[p].file.date

KeepPaths == {k.full_path : k \in to_keep}

\* Position of a file in the arrival order.
Arrival(p) == CHOOSE i \in 1..Len(visited) : visited[i] = p

\* The walk over every top-level entry has finished.
WalkFinished == pc \in {"delete", "done"}

Deleted == files \ disk
\* The parsed files visited so far that share p's group key.
Group(p) == {q \in Parsed : KeyOf(q) = KeyOf(p)}

\* The step hands one more non-directory entry to the parser.
Arrives == Len(visited') = Len(visited) + 1

----------------------------------------------------------------------------
\* Properties

\* C1 (grouping determinism): when the files of a group processed so far are
\* exactly two and their dates differ, the later-dated one is the group's
\* entry in to_keep and the earlier-dated one's path is in to_remove,
\* whichever of the two arrived first.
C1_GroupingDeterminism ==
    \A f1 \in Parsed : \A f2 \in Parsed :
        (Group(f1) = {f1, f2} /\ DateOf(f1) < DateOf(f2))
        => /\ [path |-> KeyOf(f2), date |-> DateOf(f2), full_path |-> f2] \in to_keep
           /\ Cardinality({k \in to_keep : k.path = KeyOf(f2)}) = 1
           /\ f1 \in to_remove
           /\ f2 \notin to_remove

\* The later-dated file of a two-file group arrived first, and the earlier one
\* after it.
C1_Witness ==
    \E f1 \in Parsed : \E f2 \in Parsed :
        /\ Group(f1) = {f1, f2}
        /\ DateOf(f1) < DateOf(f2)
        /\ Arrival(f2) < Arrival(f1)
        /\ f1 \in to_remove

\* C2 (skip-on-malformed): a file whose name has one or two
\* underscore-delimited fields changes neither set, is not deleted, and the
\* walk goes on.
C2_SkipOnMalformed ==
    [][(Arrives /\ Len(NameFields(Last(visited'))) < 3)
       => /\ to_keep' = to_keep
          /\ to_remove' = to_remove
          /\ disk' = disk
          /\ err' = "none"]_vars

\* C3 (end-to-end result): after a run that completes, of every group with a
\* parsed file exactly one file is left on disk, none of the group is dated
\* later than it, and the group's other files are gone.
C3_EndToEnd ==
    pc = "done" =>
        \A f \in Parsed :
            LET G == {p \in files : Classified[p].kind = "ok" /\ KeyOf(p) = KeyOf(f)}
            IN  /\ Cardinality(G \cap disk) = 1
                /\ \A s \in G \cap disk : \A p \in G : DateOf(p) <= DateOf(s)
                /\ \A p \in G : p \in disk \/ p \in Deleted

\* A completed run in which a group of three files with two dates lost two.
C3_Witness ==
    /\ pc = "done"
    /\ \E f \in Parsed :
        /\ Cardinality(Group(f)) >= 3
        /\ Cardinality(Group(f) \cap Deleted) >= 2
        /\ \E p \in Group(f) : DateOf(p) < DateOf(f)

\* C4 (partition invariant): after a full walk no path is both kept and marked
\* for removal, and the kept paths with to_remove are exactly the visited
\* files that parsed.
C4_Partition ==
    WalkFinished =>
        /\ KeepPaths \cap to_remove = {}
        /\ KeepPaths \cup to_remove = Parsed

\* A finished walk with two groups kept and a file marked for removal.
C4_Witness ==
    /\ WalkFinished
    /\ Cardinality(to_keep) >= 2
    /\ to_remove # {}

\* C5 (tie stability): a file arriving with the group key and the date of the
\* entry already in to_keep leaves to_keep as it is and has its own path added
\* to to_remove.
C5_TieStability ==
    [][(/\ Arrives
        /\ Classified[Last(visited')].kind = "ok"
        /\ \E k \in to_keep : /\ k.path = KeyOf(Last(visited'))
                              /\ k.date = DateOf(Last(visited')))
       => /\ to_keep' = to_keep
          /\ to_remove' = to_remove \cup {Last(visited')}]_vars

\* Two files of one group and one date: the first seen is kept, the second is
\* marked for removal.
C5_Witness ==
    \E f1 \in Parsed : \E f2 \in Parsed :
        /\ f1 # f2
        /\ KeyOf(f1) = KeyOf(f2)
        /\ DateOf(f1) = DateOf(f2)
        /\ Arrival(f1) < Arrival(f2)
        /\ f1 \in KeepPaths
        /\ f2 \in to_remove

\* C6 (deletion gated on a successful walk): until the walk over every
\* top-level entry has finished no file is deleted; a run that dies during the
\* walk stays in the walk and so deletes nothing.
C6_DeletionGated == pc \in {"start", "walk"} => disk = files

\* A walk that died on a fatal error with a file already marked for removal.
C6_Witness ==
    /\ pc = "walk"
    /\ err \in {"io", "format"}
    /\ to_remove # {}
    /\ disk = files

\* C7 (fatal-on-bad-date): a file whose date-position token is present but is
\* no valid date ends the run with a Format error.
C7_FatalOnBadDate ==
    [][(/\ Arrives
        /\ DateToken(Last(visited')) # <<>>
        /\ ParseDate(DateToken(Last(visited'))[1]) = 0)
       => err' = "format"]_vars

\* C8 (keep-set invariant): to_keep never holds two entries of one group key,
\* and no path in to_remove is dated later than its group's kept entry.
C8_KeepSetInvariant ==
    /\ \A k1 \in to_keep : \A k2 \in to_keep : k1.path = k2.path => k1 = k2
    /\ \A k \in to_keep : \A p \in to_remove :
           KeyOf(p) = k.path => k.date >= DateOf(p)

\* A kept entry with an older file and a same-dated file of its group both
\* marked for removal.
C8_Witness ==
    \E k \in to_keep : \E p \in to_remove : \E q \in to_remove :
        /\ KeyOf(p) = k.path /\ DateOf(p) < k.date
        /\ KeyOf(q) = k.path /\ DateOf(q) = k.date

\* C9 (deletion failure is fatal): paths are deleted in ascending order; when
\* remove_file fails, exactly the paths of to_remove below the failing one are
\* gone, the failing one and those above it are on disk, and no counts are
\* reported.
C9_DeletionFailureFatal ==
    /\ (pc = "delete" /\ err = "io")
       => /\ Deleted = {p \in to_remove : PathLess(p, last_tried)}
          /\ last_tried \in to_remove \cap disk
          /\ {p \in to_remove : PathLess(last_tried, p)} \subseteq disk
          /\ report = <<>>
    /\ (pc \in {"delete", "done"} /\ err = "none")
       => Deleted = {p \in to_remove : p = last_tried \/ PathLess(p, last_tried)}

\* A deletion that failed with one path already deleted and one still to come.
C9_Witness ==
    /\ pc = "delete"
    /\ err = "io"
    /\ \E p \in Deleted : PathLess(p, last_tried)
    /\ \E p \in to_remove \cap disk : PathLess(last_tried, p)

\* C10 (coverage at program end): when a run completes, every non-directory
\* entry under the root is the path of a to_keep entry or a path in to_remove.
C10_Coverage == pc = "done" => \A f \in files : f \in KeepPaths \/ f \in to_remove

\* A completed run over files in the root and in the sub-directory, some kept
\* and some removed.
C10_Witness ==
    /\ pc = "done"
    /\ \E f \in files : ParentOf(f) = Root /\ f \in to_remove
    /\ \E f \in files : ParentOf(f) = SubDir /\ f \in KeepPaths

\* C11 (reported counts): on a run that completes, the number reported as kept
\* is the number of distinct group keys among the parsed files, the number
\* reported as removed is the size of to_remove and the number of files
\* deleted, and the two add up to the number of parsed files.
C11_ReportedCounts ==
    pc = "done" =>
        /\ report = <<Cardinality({KeyOf(p) : p \in Parsed}), Cardinality(to_remove)>>
        /\ report[2] = Cardinality(Deleted)
        /\ report[1] + report[2] = Cardinality(Parsed)

\* The spec's example: three files in two groups, two kept and one removed.
C11_Witness ==
    /\ pc = "done"
    /\ Cardinality(Parsed) = 3
    /\ report = <<2, 1>>

\* C12 (removal is irreversible): no step takes a path out of to_remove, and
\* no step makes a path of to_remove the path of a to_keep entry.
C12_RemovalIrreversible ==
    [][/\ to_remove \subseteq to_remove'
       /\ \A p \in to_remove : \A k \in to_keep' : k.full_path # p]_vars

\* Three files of one group arrived in rising date order: the first two were
\* displaced in turn and both are still in to_remove.
C12_Witness ==
    \E p \in Parsed : \E q \in Group(p) : \E r \in Group(p) :
        /\ Arrival(p) < Arrival(q) /\ Arrival(q) < Arrival(r)
        /\ DateOf(p) < DateOf(q) /\ DateOf(q) < DateOf(r)
        /\ p \in to_remove /\ q \in to_remove
        /\ r \in KeepPaths

\* C13 (only doomed files are touched): in every state each file gone from
\* disk is a path of to_remove, every file kept when the walk ended is still
\* on disk, and the disk holds no path the tree did not start with (nothing
\* is created, moved or renamed).
C13_OnlyDoomedTouched ==
    /\ Deleted \subseteq to_remove
    /\ WalkFinished => KeepPaths \subseteq disk
    /\ disk \subseteq files

\* A completed run that deleted a file and kept files of two groups, one of
\* them in the sub-directory.
C13_Witness ==
    /\ pc = "done"
    /\ Deleted # {}
    /\ Cardinality(KeepPaths) >= 2
    /\ \E f \in KeepPaths : ParentOf(f) = SubDir

\* C14 (date-token alignment): for every file handed to the parser whose name
\* has at least three underscore-delimited fields, the token taken as the date
\* is the third-from-last field of the name.
C14_DateTokenAlignment ==
    \A p \in Range(visited) :
        Len(NameFields(p)) >= 3
        => DateToken(p) = <<NameFields(p)[Len(NameFields(p)) - 2]>>

\* The run has ended: main returned Ok(()) after the report, or a fatal error
\* or panic ended it.
Terminated == pc = "done" \/ err # "none"

\* C15 (termination): every run over a finite tree reaches a terminal state,
\* completion after the report or the abort on the first fatal error; nothing
\* happens after it, and no non-directory entry is processed twice.
C15_Termination ==
    /\ <>Terminated
    /\ [][~Terminated]_vars
    /\ [](\A i \in 1..Len(visited) : \A j \in 1..Len(visited) :
              visited[i] = visited[j] => i = j)

\* A run that completed after processing files in the root and in the
\* sub-directory.
C15_Witness ==
    /\ pc = "done"
    /\ report # <<>>
    /\ \E i \in 1..Len(visited) : ParentOf(visited[i]) = Root
    /\ \E i \in 1..Len(visited) : ParentOf(visited[i]) = SubDir
====
